---- MODULE Spec2Model ----
(***************************************************************************)
(* AutoTGManager (efb_telegram_master/auto_tg_manager.py): the decision to *)
(* auto-create a Telegram group for an external chat, the sequence of      *)
(* external calls that creates and configures it, and what the caller gets *)
(* back.  Every external call (Telegram client, chat.link, database, slave *)
(* channel, image library, bot) is a step whose outcome the environment    *)
(* chooses: it returns, or it raises.                                      *)
(***************************************************************************)
EXTENDS Integers, Sequences, FiniteSets, TLC

\* ---------------------------------------------------------------- bounds
\* Longest list GetDialogFilters returns.
MaxFolders == 2
\* Longest list db.get_chat_assoc returns.
MaxAssoc == 2

\* ---------------------------------------------------------------- values
\* Python's None, and an exception that leaves create_tg_group_if_needed.
None == "None"
Raised == "Raised"
Pending == "Pending"

\* tg_chat.id of the group create_group returns.
GroupId == "-1001"

\* A configuration value with its Python type; v is what str() gives.
PyNone == [t |-> "NoneType", v |-> "None"]
PyInt(s) == [t |-> "int", v |-> s]
PyStr(s) == [t |-> "str", v |-> s]

\* bool(x) of a configuration value.
Truthy(x) ==
    CASE x.t = "NoneType" -> FALSE
      [] x.t = "int" -> x.v # "0"
      [] OTHER -> x.v # ""

\* str(x) of a configuration value.
Str(x) == x.v

\* The chats handed to the manager: the ETM class and vendor_specific['is_mp'].
ChatClasses == {"ETMPrivateChat", "ETMGroupChat", "ETMSystemChat"}
Chats == [cls : ChatClasses, is_mp : BOOLEAN]

\* Folder titles in use, and what GetDialogFilters returns: DialogFilter
\* objects with a title, and other objects (DialogFilterDefault).
Titles == {"A", "B"}
FolderObjects == [filter : {TRUE}, title : Titles] \cup {[filter |-> FALSE, title |-> ""]}
SeqsUpTo(S, n) == UNION {[1..k -> S] : k \in 0..n}
FolderLists == SeqsUpTo(FolderObjects, MaxFolders)

\* The identifiers the association table returns.
AssocIds == {"slave chat-1", "slave chat-2"}
AssocLists == SeqsUpTo(AssocIds, MaxAssoc)

\* A Python dict is a function whose domain is the keys present.
EmptyDict == [k \in {} |-> ""]

\* ----------------------------------------------------- auto_manage_tg_config
\* auto_manage_tg / tg_api_id / tg_api_hash: is the value present and truthy.
ClientSettings ==
    { [auto_manage_tg |-> TRUE,  tg_api_id |-> TRUE,  tg_api_hash |-> TRUE],
      [auto_manage_tg |-> FALSE, tg_api_id |-> TRUE,  tg_api_hash |-> TRUE],
      [auto_manage_tg |-> TRUE,  tg_api_id |-> FALSE, tg_api_hash |-> TRUE],
      [auto_manage_tg |-> TRUE,  tg_api_id |-> TRUE,  tg_api_hash |-> FALSE],
      [auto_manage_tg |-> FALSE, tg_api_id |-> FALSE, tg_api_hash |-> FALSE] }

\* The lists of chat types: every auto_create_tg_group, and the archive and
\* mute lists that between them name each type.
TypeLists == SUBSET (1..4)
SomeTypeLists == { {1}, {2, 3, 4} }

MqValues == { PyNone, PyStr(""), PyStr("0"), PyInt("0"), PyInt("-1002"), PyStr("-1002") }

FolderConfigs ==
    { EmptyDict,
      [k \in 1..4 |-> IF k = 4 THEN "A" ELSE IF k = 1 THEN "B" ELSE ""],
      [k \in 1..4 |-> IF k = 4 THEN "" ELSE "A"],
      [k \in 1..3 |-> IF k = 3 THEN "" ELSE "B"],
      [k \in {4} |-> "B"] }

Config(cs, ac, mq, fc, ar, mu) ==
    [auto_manage_tg |-> cs.auto_manage_tg,
     tg_api_id |-> cs.tg_api_id,
     tg_api_hash |-> cs.tg_api_hash,
     auto_create_tg_group |-> ac,
     mq_auto_link_group_id |-> mq,
     auto_add_group_to_folder |-> fc,
     auto_archive_create_tg_group |-> ar,
     auto_mute_created_tg_group |-> mu]

AllEnabled == [auto_manage_tg |-> TRUE, tg_api_id |-> TRUE, tg_api_hash |-> TRUE]

\* The configurations explored: every client setting, auto_create_tg_group
\* and mq_auto_link_group_id with no post-creation step configured, and
\* every post-creation configuration with every chat type enabled.
Configs ==
    { Config(cs, ac, mq, EmptyDict, {}, {}) :
        cs \in ClientSettings, ac \in TypeLists, mq \in MqValues }
    \cup
    { Config(AllEnabled, 1..4, PyNone, fc, ar, mu) :
        fc \in FolderConfigs, ar \in SomeTypeLists, mu \in SomeTypeLists }

VARIABLES
    tg_config,      \* self.tg_config
    has_client,     \* whether __init__ assigned self.tg_client and self.tg_loop
    is_connected,   \* self.tg_client.is_connected
    pc,             \* the statement create_tg_group_if_needed is at; "idle" between calls
    chat,           \* the chat argument of the present call
    was_connected,  \* is_connected as line 122 read it
    tg_chat,        \* tg_chat of _async_create_tg_group
    folders,        \* folders of _add_tg_group_to_folder_if_needed
    target_folder,  \* target_folder of _add_tg_group_to_folder_if_needed
    picture,        \* picture of _update_chat_image
    photo,          \* what set_chat_photo was given
    tg_chats,       \* the last list db.get_chat_assoc(slave_uid=...) returned
    calls,          \* the external calls of the present call, in order
    failures,       \* those of them that raised
    linked,         \* what chat.link was given
    updated,        \* the folder UpdateDialogFilter has put the new group in
    result          \* what the call gave its caller

vars == <<tg_config, has_client, is_connected, pc, chat, was_connected, tg_chat,
          folders, target_folder, picture, photo, tg_chats, calls, failures,
          linked, updated, result>>

TypeOK ==
    /\ has_client \in BOOLEAN
    /\ is_connected \in BOOLEAN
    /\ chat \in Chats
    /\ tg_chat \in {None, GroupId}
    /\ folders \in FolderLists
    /\ tg_chats \in AssocLists
    /\ failures \subseteq {calls[i] : i \in 1..Len(calls)}
    /\ result \in {Pending, None, Raised} \cup AssocIds

\* ------------------------------------------------------------ __init__
\* Lines 37-39: the condition under which tg_client and tg_loop are assigned.
client_configured(cfg) ==
    cfg.auto_manage_tg /\ cfg.tg_api_id /\ cfg.tg_api_hash

Init ==
    /\ tg_config \in Configs
    /\ has_client = client_configured(tg_config)
    /\ is_connected = FALSE
    /\ pc = "idle"
    /\ chat = [cls |-> "ETMPrivateChat", is_mp |-> FALSE]
    /\ was_connected = FALSE
    /\ tg_chat = None
    /\ folders = <<>>
    /\ target_folder = None
    /\ picture = None
    /\ photo = None
    /\ tg_chats = <<>>
    /\ calls = <<>>
    /\ failures = {}
    /\ linked = None
    /\ updated = None
    /\ result = Pending

\* --------------------------------------------- create_tg_group_if_needed
\* mq_link_branch with the two branches of lines 50 and 61 tested in the
\* other order: a public account whose type is enabled is not linked.
mq_link_branch_after_create(c, cfg) ==
    c.is_mp /\ Truthy(cfg.mq_auto_link_group_id) /\ 4 \notin cfg.auto_create_tg_group

\* Line 50: the public-account chat that is linked to the configured group.
mq_link_branch(c, cfg) ==
    c.is_mp /\ Truthy(cfg.mq_auto_link_group_id)

\* auto_create_enabled without the is_mp disjunct of line 61.
auto_create_enabled_no_mp(c, auto_create_types) ==
    \/ c.cls = "ETMPrivateChat" /\ 1 \in auto_create_types
    \/ c.cls = "ETMGroupChat" /\ 2 \in auto_create_types
    \/ c.cls = "ETMSystemChat" /\ 3 \in auto_create_types

\* Lines 61-64: the chat's type is enabled in auto_create_tg_group.
auto_create_enabled(c, auto_create_types) ==
    \/ c.is_mp /\ 4 \in auto_create_types
    \/ c.cls = "ETMPrivateChat" /\ 1 \in auto_create_types
    \/ c.cls = "ETMGroupChat" /\ 2 \in auto_create_types
    \/ c.cls = "ETMSystemChat" /\ 3 \in auto_create_types

\* Lines 190-197.
array_config_contains_chat_type(config, c) ==
    \/ c.is_mp /\ 4 \in config
    \/ c.cls = "ETMPrivateChat" /\ 1 \in config
    \/ c.cls = "ETMGroupChat" /\ 2 \in config
    \/ c.cls = "ETMSystemChat" /\ 3 \in config

\* create_tg_group_exit without the except and finally clauses.
create_tg_group_exit_bare(exception, value) ==
    IF exception THEN Raised ELSE value

\* Lines 79-82 of _create_tg_group: an exception of the try block is logged
\* and dropped, and the finally clause returns None whatever the try block
\* returned.
create_tg_group_exit(exception, value) == None

\* AsyncBodyOrder with lines 132 and 133 exchanged.
AsyncBodyOrder_archive_first ==
    <<"start", "create_group", "resolve_bot", "resolve_chat", "edit_admin",
      "archive", "folder", "mute">>

\* Lines 122-134: the statements of _async_create_tg_group's try block.
AsyncBodyOrder ==
    <<"start", "create_group", "resolve_bot", "resolve_chat", "edit_admin",
      "folder", "archive", "mute">>

\* The statement after `step`; after the last one, line 137 returns tg_chat.
After(step) ==
    LET i == CHOOSE k \in 1..Len(AsyncBodyOrder) : AsyncBodyOrder[k] = step
    IN IF i < Len(AsyncBodyOrder) THEN AsyncBodyOrder[i + 1] ELSE "return_async"

\* on_error without the try blocks of the three helpers.
on_error_uncaught(step) == "return_async"

\* Where an exception raised in `step` leaves the program: the three
\* helpers catch their own (lines 170, 177, 187), the rest is caught at
\* line 135 and line 137 returns tg_chat.
on_error(step) ==
    IF step \in {"folder", "archive", "mute"} THEN After(step) ELSE "return_async"

\* after_async without the read of tg_chat.title at line 73.
after_async_unchecked(t) == "link"

\* Lines 72-74: back in _create_tg_group, tg_chat.title is read; on None
\* that raises and the except clause of line 79 takes over.
after_async(t) ==
    IF t = None THEN "except" ELSE "link"

Resume(p, t) == IF p = "return_async" THEN after_async(t) ELSE p

GoTo(p, t) ==
    /\ pc' = IF Resume(p, t) = "except" THEN "idle" ELSE Resume(p, t)
    /\ result' = IF Resume(p, t) = "except"
                 THEN create_tg_group_exit(TRUE, None) ELSE result

Log(c) == calls' = Append(calls, c)
Fail(c) == failures' = failures \cup {c}

\* Lines 45-68 up to the first external call.
Call(c) ==
    /\ pc = "idle"
    /\ chat' = c
    /\ was_connected' = is_connected
    /\ tg_chat' = None
    /\ folders' = <<>>
    /\ target_folder' = None
    /\ picture' = None
    /\ photo' = None
    /\ tg_chats' = <<>>
    /\ calls' = <<>>
    /\ failures' = {}
    /\ linked' = None
    /\ updated' = None
    /\ IF ~has_client
       THEN \* line 46 reads an attribute __init__ never assigned
            pc' = "idle" /\ result' = Raised
       ELSE IF mq_link_branch(c, tg_config)
       THEN IF Str(tg_config.mq_auto_link_group_id) = ""
            THEN pc' = "idle" /\ result' = None
            ELSE pc' = "mq_link" /\ result' = Pending
       ELSE IF auto_create_enabled(c, tg_config.auto_create_tg_group)
       THEN pc' = "start" /\ result' = Pending
       ELSE pc' = "idle" /\ result' = None
    /\ UNCHANGED <<tg_config, has_client, is_connected>>

\* Lines 55-60.
MqLink ==
    /\ pc = "mq_link"
    /\ Log("link")
    /\ linked' = Str(tg_config.mq_auto_link_group_id)
    /\ \/ pc' = "mq_lookup" /\ UNCHANGED <<failures, result>>
       \/ pc' = "idle" /\ Fail("link") /\ result' = Raised
    /\ UNCHANGED <<tg_config, has_client, is_connected, chat, was_connected, tg_chat,
                   folders, target_folder, picture, photo, tg_chats, updated>>

MqLookup ==
    /\ pc = "mq_lookup"
    /\ Log("get_chat_assoc_slave")
    /\ pc' = "idle"
    /\ \/ \E l \in AssocLists :
            /\ tg_chats' = l
            /\ result' = IF Len(l) = 1 THEN l[1] ELSE None
            /\ UNCHANGED failures
       \/ Fail("get_chat_assoc_slave") /\ result' = Raised /\ UNCHANGED tg_chats
    /\ UNCHANGED <<tg_config, has_client, is_connected, chat, was_connected, tg_chat,
                   folders, target_folder, picture, photo, linked, updated>>

\* ------------------------------------------------ _async_create_tg_group
\* Lines 122-123.
ClientStart ==
    /\ pc = "start"
    /\ IF is_connected
       THEN GoTo(After("start"), tg_chat) /\ UNCHANGED <<calls, failures, is_connected>>
       ELSE /\ Log("start")
            /\ \/ /\ is_connected' = TRUE
                  /\ GoTo(After("start"), tg_chat)
                  /\ UNCHANGED failures
               \/ /\ is_connected' \in BOOLEAN
                  /\ Fail("start")
                  /\ GoTo(on_error("start"), tg_chat)
    /\ UNCHANGED <<tg_config, has_client, chat, was_connected, tg_chat, folders,
                   target_folder, picture, photo, tg_chats, linked, updated>>

\* Line 124.
CreateGroup ==
    /\ pc = "create_group"
    /\ Log("create_group")
    /\ \/ /\ tg_chat' = GroupId
          /\ GoTo(After("create_group"), GroupId)
          /\ UNCHANGED failures
       \/ /\ Fail("create_group")
          /\ GoTo(on_error("create_group"), tg_chat)
          /\ UNCHANGED tg_chat
    /\ UNCHANGED <<tg_config, has_client, is_connected, chat, was_connected, folders,
                   target_folder, picture, photo, tg_chats, linked, updated>>

\* An awaited call of the try block that assigns nothing the model keeps.
Await(step, name) ==
    /\ pc = step
    /\ Log(name)
    /\ \/ GoTo(After(step), tg_chat) /\ UNCHANGED failures
       \/ Fail(name) /\ GoTo(on_error(step), tg_chat)
    /\ UNCHANGED <<tg_config, has_client, is_connected, chat, was_connected, tg_chat,
                   folders, target_folder, picture, photo, tg_chats, linked, updated>>

\* Line 125.
ResolveBot == Await("resolve_bot", "resolve_peer_bot")

\* Line 126.
ResolveChat == Await("resolve_chat", "resolve_peer_chat")

\* Lines 127-131.
EditChatAdmin == Await("edit_admin", "EditChatAdmin")

\* ------------------------------------- _add_tg_group_to_folder_if_needed
KeyError == "KeyError"
TypingAlias == "Optional[DialogFilter]"

\* dict[key]
Item(d, k) == IF k \in DOMAIN d THEN d[k] ELSE KeyError

\* The key of auto_add_group_to_folder that belongs to the chat's class.
ClassKey(c) ==
    CASE c.cls = "ETMPrivateChat" -> 1
      [] c.cls = "ETMGroupChat" -> 2
      [] c.cls = "ETMSystemChat" -> 3

\* get_target_folder taking the first of several folders of the title.
get_target_folder_first(title, fs) ==
    LET res == SelectSeq(fs, LAMBDA x : x.filter /\ x.title = title)
    IN IF Len(res) >= 1 THEN res[1].title ELSE None

\* Lines 147-152.
get_target_folder(title, fs) ==
    LET res == SelectSeq(fs, LAMBDA x : x.filter /\ x.title = title)
    IN IF Len(res) = 1 THEN res[1].title ELSE None

\* Lines 154-162: line 154 binds target_folder to the typing alias, and the
\* chain rebinds it in the first branch whose condition holds; a key that is
\* not in the dict raises where it is read.
choose_target_folder(c, folder_config, fs) ==
    IF c.is_mp /\ Item(folder_config, 4) = KeyError THEN KeyError
    ELSE IF c.is_mp /\ Item(folder_config, 4) # ""
         THEN get_target_folder(Item(folder_config, 4), fs)
    ELSE IF Item(folder_config, ClassKey(c)) = KeyError THEN KeyError
    ELSE IF Item(folder_config, ClassKey(c)) # ""
         THEN get_target_folder(Item(folder_config, ClassKey(c)), fs)
    ELSE TypingAlias

\* Leaving the helper, by its end or by its except clause: its locals go.
FolderReturn(p) ==
    /\ GoTo(p, tg_chat)
    /\ folders' = <<>>
    /\ target_folder' = None

\* Lines 141-164.
FolderGet ==
    /\ pc = "folder"
    /\ IF DOMAIN tg_config.auto_add_group_to_folder = {}
       THEN FolderReturn(After("folder")) /\ UNCHANGED <<calls, failures>>
       ELSE /\ Log("GetDialogFilters")
            /\ \/ Fail("GetDialogFilters") /\ FolderReturn(on_error("folder"))
               \/ \E fs \in FolderLists :
                    LET t == choose_target_folder(chat, tg_config.auto_add_group_to_folder, fs)
                    IN /\ UNCHANGED failures
                       /\ IF t = KeyError THEN FolderReturn(on_error("folder"))
                          ELSE IF t = None THEN FolderReturn(After("folder"))
                          ELSE /\ folders' = fs
                               /\ target_folder' = t
                               /\ pc' = "folder_resolve"
                               /\ UNCHANGED result
    /\ UNCHANGED <<tg_config, has_client, is_connected, chat, was_connected, tg_chat,
                   picture, photo, tg_chats, linked, updated>>

\* Lines 165-166: the typing alias has no include_peers.
FolderResolve ==
    /\ pc = "folder_resolve"
    /\ Log("resolve_peer_folder")
    /\ \/ Fail("resolve_peer_folder") /\ FolderReturn(on_error("folder"))
       \/ /\ UNCHANGED failures
          /\ IF target_folder = TypingAlias
             THEN FolderReturn(on_error("folder"))
             ELSE pc' = "folder_update" /\ UNCHANGED <<result, folders, target_folder>>
    /\ UNCHANGED <<tg_config, has_client, is_connected, chat, was_connected, tg_chat,
                   picture, photo, tg_chats, linked, updated>>

\* Lines 167-169: r is true, r is false, or the call raises.
FolderUpdate ==
    /\ pc = "folder_update"
    /\ Log("UpdateDialogFilter")
    /\ \/ updated' = target_folder /\ FolderReturn(After("folder")) /\ UNCHANGED failures
       \/ UNCHANGED <<updated, failures>> /\ FolderReturn(on_error("folder"))
       \/ UNCHANGED updated /\ Fail("UpdateDialogFilter") /\ FolderReturn(on_error("folder"))
    /\ UNCHANGED <<tg_config, has_client, is_connected, chat, was_connected, tg_chat,
                   picture, photo, tg_chats, linked>>

\* Lines 173-178.
Archive ==
    /\ pc = "archive"
    /\ IF array_config_contains_chat_type(tg_config.auto_archive_create_tg_group, chat)
       THEN /\ Log("archive_chats")
            /\ \/ GoTo(After("archive"), tg_chat) /\ UNCHANGED failures
               \/ Fail("archive_chats") /\ GoTo(on_error("archive"), tg_chat)
       ELSE GoTo(After("archive"), tg_chat) /\ UNCHANGED <<calls, failures>>
    /\ UNCHANGED <<tg_config, has_client, is_connected, chat, was_connected, tg_chat,
                   folders, target_folder, picture, photo, tg_chats, linked, updated>>

\* Lines 180-183.
MuteResolve ==
    /\ pc = "mute"
    /\ IF array_config_contains_chat_type(tg_config.auto_mute_created_tg_group, chat)
       THEN /\ Log("resolve_peer_mute")
            /\ \/ pc' = "mute_update" /\ UNCHANGED <<failures, result>>
               \/ Fail("resolve_peer_mute") /\ GoTo(on_error("mute"), tg_chat)
       ELSE GoTo(After("mute"), tg_chat) /\ UNCHANGED <<calls, failures>>
    /\ UNCHANGED <<tg_config, has_client, is_connected, chat, was_connected, tg_chat,
                   folders, target_folder, picture, photo, tg_chats, linked, updated>>

\* Lines 184-188.
MuteUpdate ==
    /\ pc = "mute_update"
    /\ Log("UpdateNotifySettings")
    /\ \/ GoTo(After("mute"), tg_chat) /\ UNCHANGED failures
       \/ Fail("UpdateNotifySettings") /\ GoTo(on_error("mute"), tg_chat)
    /\ UNCHANGED <<tg_config, has_client, is_connected, chat, was_connected, tg_chat,
                   folders, target_folder, picture, photo, tg_chats, linked, updated>>

\* ------------------------------------------------------ _create_tg_group
\* Line 74.
Link ==
    /\ pc = "link"
    /\ Log("link")
    /\ linked' = tg_chat
    /\ \/ pc' = "img_lookup" /\ UNCHANGED <<failures, result>>
       \/ /\ Fail("link")
          /\ pc' = "idle"
          /\ result' = create_tg_group_exit(TRUE, None)
    /\ UNCHANGED <<tg_config, has_client, is_connected, chat, was_connected, tg_chat,
                   folders, target_folder, picture, photo, tg_chats, updated>>

\* --------------------------------------------------- _update_chat_image
\* Every exception below is caught at lines 109-112, so each failing step
\* leaves _update_chat_image for line 76.

\* Lines 88-90: the lookup raises, or returns a list the assert accepts or
\* rejects.
ImgLookup ==
    /\ pc = "img_lookup"
    /\ Log("get_chat_assoc_master")
    /\ \/ Fail("get_chat_assoc_master") /\ pc' = "assoc_lookup"
       \/ \E l \in AssocLists :
            /\ pc' = IF Len(l) = 1 THEN "img_get_chat" ELSE "assoc_lookup"
            /\ UNCHANGED failures
    /\ UNCHANGED <<tg_config, has_client, is_connected, chat, was_connected, tg_chat,
                   folders, target_folder, picture, photo, tg_chats, linked, updated,
                   result>>

\* Lines 91-93.
ImgGetChat ==
    /\ pc = "img_get_chat"
    /\ Log("get_chat")
    /\ \/ pc' = "img_picture" /\ UNCHANGED failures
       \/ Fail("get_chat") /\ pc' = "assoc_lookup"
    /\ UNCHANGED <<tg_config, has_client, is_connected, chat, was_connected, tg_chat,
                   folders, target_folder, picture, photo, tg_chats, linked, updated,
                   result>>

\* Lines 94-96: a picture, None, or an exception (EFBOperationNotSupported
\* and any other are both caught).
ImgPicture ==
    /\ pc = "img_picture"
    /\ Log("get_chat_picture")
    /\ \/ picture' \in {"picture", None} /\ pc' = "img_open" /\ UNCHANGED failures
       \/ Fail("get_chat_picture") /\ pc' = "assoc_lookup" /\ UNCHANGED picture
    /\ UNCHANGED <<tg_config, has_client, is_connected, chat, was_connected, tg_chat,
                   folders, target_folder, photo, tg_chats, linked, updated, result>>

\* Lines 97-106: Image.open raises on None; an image smaller than 256 on a
\* side is resized, and the resized copy is what line 108 passes on.
ImgOpen ==
    /\ pc = "img_open"
    /\ Log("Image.open")
    /\ IF picture = None
       THEN Fail("Image.open") /\ pc' = "assoc_lookup" /\ UNCHANGED photo
       ELSE \/ Fail("Image.open") /\ pc' = "assoc_lookup" /\ UNCHANGED photo
            \/ photo' \in {"picture", "pic_resized"} /\ pc' = "set_photo" /\ UNCHANGED failures
    /\ UNCHANGED <<tg_config, has_client, is_connected, chat, was_connected, tg_chat,
                   folders, target_folder, picture, tg_chats, linked, updated, result>>

\* Line 108.
SetPhoto ==
    /\ pc = "set_photo"
    /\ Log("set_chat_photo")
    /\ pc' = "assoc_lookup"
    /\ \/ UNCHANGED failures
       \/ Fail("set_chat_photo")
    /\ UNCHANGED <<tg_config, has_client, is_connected, chat, was_connected, tg_chat,
                   folders, target_folder, picture, photo, tg_chats, linked, updated,
                   result>>

\* Lines 76-82: the lookup raises, the assert fails, or line 78 returns.
AssocLookup ==
    /\ pc = "assoc_lookup"
    /\ Log("get_chat_assoc_slave")
    /\ pc' = "idle"
    /\ \/ /\ Fail("get_chat_assoc_slave")
          /\ result' = create_tg_group_exit(TRUE, None)
          /\ UNCHANGED tg_chats
       \/ \E l \in AssocLists :
            /\ tg_chats' = l
            /\ result' = IF Len(l) = 1
                         THEN create_tg_group_exit(FALSE, l[1])
                         ELSE create_tg_group_exit(TRUE, None)
            /\ UNCHANGED failures
    /\ UNCHANGED <<tg_config, has_client, is_connected, chat, was_connected, tg_chat,
                   folders, target_folder, picture, photo, linked, updated>>

Next ==
    \/ \E c \in Chats : Call(c)
    \/ MqLink
    \/ MqLookup
    \/ ClientStart
    \/ CreateGroup
    \/ ResolveBot
    \/ ResolveChat
    \/ EditChatAdmin
    \/ FolderGet
    \/ FolderResolve
    \/ FolderUpdate
    \/ Archive
    \/ MuteResolve
    \/ MuteUpdate
    \/ Link
    \/ ImgLookup
    \/ ImgGetChat
    \/ ImgPicture
    \/ ImgOpen
    \/ SetPhoto
    \/ AssocLookup

Spec == Init /\ [][Next]_vars

\* =================================================================
\* The properties.

Called(c) == \E i \in 1..Len(calls) : calls[i] = c
Times(c) == Cardinality({i \in 1..Len(calls) : calls[i] = c})

\* A call has been made; it has returned or raised.
Started == pc # "idle" \/ result # Pending
Finished == pc = "idle" /\ result # Pending

\* The configuration as the properties read it.
Configured ==
    tg_config.auto_manage_tg /\ tg_config.tg_api_id /\ tg_config.tg_api_hash
MqConfigured ==
    \/ tg_config.mq_auto_link_group_id.t = "str" /\ tg_config.mq_auto_link_group_id.v # ""
    \/ tg_config.mq_auto_link_group_id.t = "int" /\ tg_config.mq_auto_link_group_id.v # "0"
TypeIn(list) ==
    \/ chat.is_mp /\ 4 \in list
    \/ chat.cls = "ETMPrivateChat" /\ 1 \in list
    \/ chat.cls = "ETMGroupChat" /\ 2 \in list
    \/ chat.cls = "ETMSystemChat" /\ 3 \in list

\* The present call is one that auto-creates; one that links a public account.
Qualifies ==
    /\ Configured
    /\ ~(chat.is_mp /\ MqConfigured)
    /\ TypeIn(tg_config.auto_create_tg_group)
OnAutoPath == Started /\ Qualifies
OnMqPath == Started /\ Configured /\ chat.is_mp /\ MqConfigured

\* C1 as stated: create_group is invoked if and only if the client is
\* configured, the chat is not a public account with a non-empty
\* mq_auto_link_group_id, and the chat's type is in auto_create_tg_group.
C1_CreateIffQualifies ==
    /\ Called("create_group") => Started /\ Qualifies
    /\ Finished => (Called("create_group") <=> Qualifies)

\* C1 amended: create_group is invoked only for a qualifying chat, and for
\* every qualifying chat unless the client had to be started and start
\* raised.
C1_CreateIffQualifiesAndStarted ==
    /\ Called("create_group") => Started /\ Qualifies
    /\ Finished => (Called("create_group") <=> (Qualifies /\ "start" \notin failures))

\* A public account without mq_auto_link_group_id, enabled by key 4 alone,
\* for which create_group was invoked; the call has returned.
C1_Witness ==
    /\ Finished
    /\ Called("create_group")
    /\ chat.is_mp
    /\ chat.cls = "ETMGroupChat"
    /\ tg_config.auto_create_tg_group = {4}

\* C2: a qualifying chat, create_group and chat.link succeed and the final
\* association lookup returns exactly one entry: the call returns that
\* entry.
C2_ReturnsAssociation ==
    ( /\ Finished
      /\ Qualifies
      /\ Called("create_group") /\ "create_group" \notin failures
      /\ Called("link") /\ "link" \notin failures
      /\ Called("get_chat_assoc_slave") /\ "get_chat_assoc_slave" \notin failures
      /\ Len(tg_chats) = 1 )
    => result = tg_chats[1]

\* C3: without a client the call returns None, and calls nothing.
C3_NoClientReturnsNone ==
    (Finished /\ ~Configured) => (result = None /\ calls = <<>> /\ linked = None)

\* The place of each external call in the order C4 gives.
Place(c) ==
    CASE c = "start" -> 1
      [] c = "create_group" -> 2
      [] c = "resolve_peer_bot" -> 3
      [] c = "resolve_peer_chat" -> 4
      [] c = "EditChatAdmin" -> 5
      [] c = "GetDialogFilters" -> 6
      [] c = "resolve_peer_folder" -> 7
      [] c = "UpdateDialogFilter" -> 8
      [] c = "archive_chats" -> 9
      [] c = "resolve_peer_mute" -> 10
      [] c = "UpdateNotifySettings" -> 11
      [] c = "link" -> 12
      [] c = "get_chat_assoc_master" -> 13
      [] c = "get_chat" -> 14
      [] c = "get_chat_picture" -> 15
      [] c = "Image.open" -> 16
      [] c = "set_chat_photo" -> 17
      [] c = "get_chat_assoc_slave" -> 18

FolderSteps == {"folder", "folder_resolve", "folder_update"}
MuteSteps == {"mute", "mute_update"}
BeforeCreate == {"start", "create_group"}
BeforeLink ==
    BeforeCreate \cup {"resolve_bot", "resolve_chat", "edit_admin"}
        \cup FolderSteps \cup {"archive"} \cup MuteSteps

\* C4: in an auto-creation in which no external call has failed, the calls
\* made so far are in the order start, create_group, promotion, folder
\* placement, archiving, muting, link, avatar sync; start is called exactly
\* when the client was not connected; link and the avatar calls come after
\* the folder, archive and mute steps have ended, each of which has made
\* its call if it is configured for the chat; and a finished run has created
\* the group, promoted the bot and linked the chat.
C4_CallOrder ==
    (OnAutoPath /\ failures = {}) =>
        /\ \A i, j \in 1..Len(calls) : i < j => Place(calls[i]) < Place(calls[j])
        /\ Called("start") => ~was_connected
        /\ (Called("create_group") /\ ~was_connected) => Called("start")
        /\ (pc \notin BeforeLink /\ pc # "link") => Called("link")
        /\ Called("link") =>
            /\ pc \notin BeforeLink
            /\ Called("create_group") /\ Called("EditChatAdmin")
            /\ TypeIn(tg_config.auto_archive_create_tg_group) => Called("archive_chats")
            /\ TypeIn(tg_config.auto_mute_created_tg_group) => Called("UpdateNotifySettings")
            /\ DOMAIN tg_config.auto_add_group_to_folder # {} => Called("GetDialogFilters")

\* A finished run without a failure that made every one of the calls, the
\* client start included.
C4_Witness ==
    /\ Finished /\ OnAutoPath /\ failures = {}
    /\ \A c \in {"start", "create_group", "EditChatAdmin", "UpdateDialogFilter",
                 "archive_chats", "UpdateNotifySettings", "link", "set_chat_photo"} :
          Called(c)

\* C5: once the bot is promoted, whatever fails in folder placement,
\* archiving or muting, archiving and muting are attempted when configured
\* for the chat, the chat is linked to the new group, and nothing is raised.
C5_StepsFailIndependently ==
    (OnAutoPath /\ Called("EditChatAdmin") /\ "EditChatAdmin" \notin failures) =>
        /\ result # Raised
        /\ (pc \notin FolderSteps /\ pc # "archive"
                /\ TypeIn(tg_config.auto_archive_create_tg_group))
             => Called("archive_chats")
        /\ (pc \notin FolderSteps /\ pc # "archive" /\ pc # "mute"
                /\ TypeIn(tg_config.auto_mute_created_tg_group))
             => Called("resolve_peer_mute")
        /\ (pc \notin BeforeLink /\ pc # "link")
             => (Called("link") /\ linked = GroupId)

\* Folder placement, archiving and muting have each failed in an external
\* call, and the chat has been linked to the new group.
C5_Witness ==
    /\ OnAutoPath
    /\ failures \cap {"GetDialogFilters", "resolve_peer_folder", "UpdateDialogFilter"} # {}
    /\ "archive_chats" \in failures
    /\ failures \cap {"resolve_peer_mute", "UpdateNotifySettings"} # {}
    /\ Called("link") /\ linked = GroupId /\ "link" \notin failures

\* C6: on the auto-creation path no exception leaves the call: whatever has
\* failed, nothing is raised to the caller, the call is never stuck and it
\* ends within the eighteen external calls of the path.
C6_NothingEscapes ==
    OnAutoPath =>
        /\ result # Raised
        /\ Finished \/ ENABLED Next
        /\ Len(calls) <= 18
        /\ IF Finished THEN result \in {None} \cup AssocIds ELSE result = Pending

\* A finished auto-creation in which chat.link raised.
C6_Witness ==
    Finished /\ OnAutoPath /\ "link" \in failures /\ result = None

\* The final association lookup returned exactly one entry.
OneAssociation ==
    /\ Called("get_chat_assoc_slave")
    /\ "get_chat_assoc_slave" \notin failures
    /\ Len(tg_chats) = 1

\* C7 as stated: a public account with mq_auto_link_group_id configured is
\* never given a new group; chat.link is called once, with the configured
\* id, and the call returns the one association the lookup finds, None
\* otherwise.
C7_MqLinkedNotCreated ==
    OnMqPath =>
        /\ ~Called("create_group")
        /\ Finished =>
            /\ Times("link") = 1
            /\ linked = tg_config.mq_auto_link_group_id.v
            /\ result = IF OneAssociation THEN tg_chats[1] ELSE None

\* C7 amended: as above when chat.link and the lookup return; an exception
\* of either leaves the call, which then returns nothing.
C7_MqLinkedNotCreatedUnlessRaised ==
    OnMqPath =>
        /\ ~Called("create_group")
        /\ Finished =>
            /\ Times("link") = 1
            /\ linked = tg_config.mq_auto_link_group_id.v
            /\ result = IF "link" \in failures \/ "get_chat_assoc_slave" \in failures
                        THEN Raised
                        ELSE IF OneAssociation THEN tg_chats[1] ELSE None

\* A public account whose type is enabled by key 4, linked to the group
\* configured as an integer; the lookup found one association.
C7_Witness ==
    /\ Finished /\ OnMqPath
    /\ 4 \in tg_config.auto_create_tg_group
    /\ tg_config.mq_auto_link_group_id.t = "int"
    /\ linked = "-1002"
    /\ OneAssociation /\ result = tg_chats[1]

\* The DialogFilter objects of the folder list that carry the title.
Carrying(title) ==
    {i \in 1..Len(folders) : folders[i].filter /\ folders[i].title = title}

\* dict.get(key, ''): the title configured under a key, '' without one.
TitleAt(k) ==
    IF k \in DOMAIN tg_config.auto_add_group_to_folder
    THEN tg_config.auto_add_group_to_folder[k] ELSE ""

\* The key of the chat's type as C8 gives it.
TypeKey ==
    IF chat.is_mp THEN 4
    ELSE CASE chat.cls = "ETMPrivateChat" -> 1
           [] chat.cls = "ETMGroupChat" -> 2
           [] chat.cls = "ETMSystemChat" -> 3

\* The key of the chat's class.
ClassKeyOf ==
    CASE chat.cls = "ETMPrivateChat" -> 1
      [] chat.cls = "ETMGroupChat" -> 2
      [] chat.cls = "ETMSystemChat" -> 3

\* A step invokes UpdateDialogFilter, or puts the group in a folder.
UpdatesFilter ==
    \/ Times("UpdateDialogFilter")' > Times("UpdateDialogFilter")
    \/ updated' # None /\ updated' # updated

\* C8 as stated: a dialog filter is updated, and the group put in a folder,
\* only when the key of the chat's type (4 for is_mp, else 1, 2, 3) has a
\* non-empty title and exactly one existing folder carries it.
C8_UpdateOnlyTypeTitle ==
    [][UpdatesFilter =>
        /\ TitleAt(TypeKey) # ""
        /\ Cardinality(Carrying(TitleAt(TypeKey))) = 1
        /\ updated' \in {None, TitleAt(TypeKey)}]_vars

\* The title lines 155-162 select: that of key 4 for a public account when
\* it is non-empty, else that of the key of the chat's class; none when a
\* key read is missing.
SelectedTitle ==
    IF chat.is_mp /\ 4 \notin DOMAIN tg_config.auto_add_group_to_folder THEN ""
    ELSE IF chat.is_mp /\ TitleAt(4) # "" THEN TitleAt(4)
    ELSE TitleAt(ClassKeyOf)

\* C8 amended: a dialog filter is updated, and the group put in a folder,
\* only when the selected title is non-empty and exactly one existing folder
\* carries it; that folder is the one updated.
C8_UpdateOnlySelectedTitle ==
    [][UpdatesFilter =>
        /\ SelectedTitle # ""
        /\ Cardinality(Carrying(SelectedTitle)) = 1
        /\ updated' \in {None, SelectedTitle}]_vars

\* A public account with an empty title under key 4 that was put in the
\* folder of its class.
C8_Witness ==
    /\ OnAutoPath /\ chat.is_mp
    /\ TitleAt(4) = "" /\ 4 \in DOMAIN tg_config.auto_add_group_to_folder
    /\ Called("UpdateDialogFilter")
    /\ updated = TitleAt(ClassKeyOf) /\ updated # ""

\* C9: chat.link is called only once create_group has returned a group, and
\* with that group; when client start or create_group has failed, nothing is
\* linked, set_chat_photo is not called and the call returns None.
C9_NoLinkWithoutGroup ==
    OnAutoPath =>
        /\ Called("link") =>
            /\ Called("create_group") /\ "create_group" \notin failures
            /\ linked = GroupId
        /\ (failures \cap {"start", "create_group"} # {}) =>
            /\ ~Called("link") /\ linked = None
            /\ ~Called("set_chat_photo")
            /\ result = None /\ Finished

\* create_group raised after the client had started, and the call returned None.
C9_Witness ==
    /\ Finished /\ OnAutoPath
    /\ Called("start") /\ "create_group" \in failures
    /\ result = None /\ linked = None

====
